---- MODULE Spec2Model ----
(***************************************************************************)
(* Model of Settings::validate (src/settings.rs) of the labels policy.     *)
(*                                                                         *)
(* A Rust String is modelled as the sequence of its UTF-8 bytes; a byte is *)
(* a token: an ASCII byte is the one-character string of its character,    *)
(* the two bytes of U+00E9 are "0xC3" and "0xA9".  len(), rfind(),         *)
(* split_at() and slicing work on byte offsets, as in Rust.  A string      *)
(* literal of a format! call is one token of the output.                   *)
(***************************************************************************)
EXTENDS Integers, Sequences, FiniteSets, TLC

VARIABLES
    labels,         \* self.0.values(): the HashSet<String> under validation
    pc,             \* position in validate: "validate", "iter", "done"
    todo,           \* labels the iterator of line 35 has not yielded yet
    label,          \* the closure's argument in its latest call
    prefix,         \* the closure's local `prefix` in its latest call
    name,           \* the closure's local `name` in its latest call
    entry,          \* what the closure returned in its latest call
    invalid_label,  \* the Vec<String> collected at lines 34-68
    result          \* what validate returned (or that it panicked)

vars == <<labels, pc, todo, label, prefix, name, entry, invalid_label, result>>

(***************************************************************************)
(* Bounds of the input space.                                              *)
(***************************************************************************)
\* every string of at most MaxLen characters over ShortChars is an input
MaxLen == 3
\* generated long keys have lengths within Margin of each length limit
Margin == 2
\* sets of several keys hold at most MaxKeys keys
MaxKeys == 3

(***************************************************************************)
(* Characters and strings.                                                 *)
(***************************************************************************)
Lower ==
    {"a", "b", "c", "d", "e", "f", "g", "h", "i", "j", "k", "l", "m",
     "n", "o", "p", "q", "r", "s", "t", "u", "v", "w", "x", "y", "z"}

Upper ==
    {"A", "B", "C", "D", "E", "F", "G", "H", "I", "J", "K", "L", "M",
     "N", "O", "P", "Q", "R", "S", "T", "U", "V", "W", "X", "Y", "Z"}

Digit ==
    {"0", "1", "2", "3", "4", "5", "6", "7", "8", "9"}

\* the continuation bytes (10xxxxxx) among the byte tokens
ContinuationBytes ==
    {"0xA9"}

\* char -> its UTF-8 bytes (String construction)
Utf8Char(c) ==
    IF c = "U+00E9" THEN <<"0xC3", "0xA9">> ELSE <<c>>

RECURSIVE Utf8(_)
Utf8(chars) ==
    IF chars = <<>> THEN <<>>
    ELSE Utf8Char(Head(chars)) \o Utf8(Tail(chars))

\* "c".repeat(n)
Repeat(c, n) ==
    [i \in 1..n |-> c]

\* str::is_char_boundary(i), i a byte offset from 0
IsCharBoundary(s, i) ==
    \/ i = 0
    \/ i = Len(s)
    \/ i > 0 /\ i < Len(s) /\ s[i + 1] \notin ContinuationBytes

(***************************************************************************)
(* LABELS_NAME_REGEX, line 23:                                             *)
(*   ^([a-z0-9]([-a-z0-9]*[a-z0-9])?(\.[a-z0-9]([-a-z0-9]*[a-z0-9])?)*/)?  *)
(*    [a-zA-Z0-9]([a-zA-Z0-9_.-]{0,61}[a-zA-Z0-9])?$                       *)
(* The language of the pattern, group by group.  A key with a multi-byte   *)
(* character never matches: none of its bytes is in a class.               *)
(***************************************************************************)
PrefixAlnum_upper ==
    Lower \cup Digit \cup Upper

\* [a-z0-9]
PrefixAlnum ==
    Lower \cup Digit

\* [-a-z0-9]
PrefixChar ==
    PrefixAlnum \cup {"-"}

\* [a-zA-Z0-9]
NameAlnum ==
    Lower \cup Upper \cup Digit

\* [a-zA-Z0-9_.-]
NameChar ==
    NameAlnum \cup {"_", ".", "-"}

\* the 61 of {0,61}
NameMiddleMax == 61

\* [a-z0-9]([-a-z0-9]*[a-z0-9])?
DnsLabel(l) ==
    /\ Len(l) >= 1
    /\ l[1] \in PrefixAlnum
    /\ \/ Len(l) = 1
       \/ /\ l[Len(l)] \in PrefixAlnum
          /\ \A i \in 2..(Len(l) - 1) : l[i] \in PrefixChar

\* label(\.label)* : no class of a label holds '.', so every '.' of p
\* separates two labels
PrefixGroup(p) ==
    LET dots == {i \in 1..Len(p) : p[i] = "."}
        starts == {1} \cup {d + 1 : d \in dots}
        EndOf(a) ==
            LET after == {d \in dots : d >= a}
            IN  IF after = {} THEN Len(p)
                ELSE (CHOOSE d \in after : \A e \in after : d <= e) - 1
    IN  \A a \in starts : DnsLabel(SubSeq(p, a, EndOf(a)))

\* [a-zA-Z0-9]([a-zA-Z0-9_.-]{0,61}[a-zA-Z0-9])?
NameSegment(n) ==
    /\ Len(n) >= 1
    /\ n[1] \in NameAlnum
    /\ \/ Len(n) = 1
       \/ /\ Len(n) - 2 \in 0..NameMiddleMax
          /\ n[Len(n)] \in NameAlnum
          /\ \A i \in 2..(Len(n) - 1) : n[i] \in NameChar

\* labels_name_regex.is_match(label), line 63: ^(prefix/)?name$
IsMatch(s) ==
    \/ NameSegment(s)
    \/ \E k \in 1..Len(s) :
          /\ s[k] = "/"
          /\ PrefixGroup(SubSeq(s, 1, k - 1))
          /\ NameSegment(SubSeq(s, k + 1, Len(s)))

(***************************************************************************)
(* Option and Result values.                                               *)
(***************************************************************************)
None ==
    [some |-> FALSE, val |-> <<>>]

Some(v) ==
    [some |-> TRUE, val |-> v]

Running ==
    [kind |-> "Running", msg |-> <<>>]

Ok ==
    [kind |-> "Ok", msg |-> <<>>]

Err(m) ==
    [kind |-> "Err", msg |-> m]

\* the call unwound instead of returning
Panic ==
    [kind |-> "Panic", msg |-> <<>>]

(***************************************************************************)
(* The string operations of the closure, lines 48-50.                      *)
(***************************************************************************)
\* label.find('/'): byte offset of the first '/'
Find(s) ==
    LET at == {i \in 1..Len(s) : s[i] = "/"}
    IN  IF at = {} THEN None
        ELSE Some((CHOOSE i \in at : \A j \in at : i <= j) - 1)

\* label.rfind('/'): byte offset of the last '/'
RFind(s) ==
    LET at == {i \in 1..Len(s) : s[i] = "/"}
    IN  IF at = {} THEN None
        ELSE Some((CHOOSE i \in at : \A j \in at : i >= j) - 1)

\* s.split_at(mid): panics unless mid is on a char boundary (so mid <= len)
SplitAt(s, mid) ==
    IF mid <= Len(s) /\ IsCharBoundary(s, mid)
    THEN Some(<<SubSeq(s, 1, mid), SubSeq(s, mid + 1, Len(s))>>)
    ELSE None

\* &s[from..]: panics unless from is on a char boundary (so from <= len)
SliceFrom(s, from) ==
    IF from <= Len(s) /\ IsCharBoundary(s, from)
    THEN Some(SubSeq(s, from + 1, Len(s)))
    ELSE None

SkipSlash_two(rest) ==
    SliceFrom(rest, 2)

\* &name[1..], line 50
SkipSlash(rest) ==
    SliceFrom(rest, 1)

(***************************************************************************)
(* The length checks, lines 51-62.                                         *)
(***************************************************************************)
\* line 51
PrefixMax == 253
\* lines 54 and 60
NameMax == 63
\* line 57
KeyMax == 253

PrefixTooLong_nameMax(p) ==
    Len(p) > NameMax

\* prefix.len() > 253
PrefixTooLong(p) ==
    Len(p) > PrefixMax

NameTooLong_offByOne(n) ==
    Len(n) >= NameMax

\* name.len() > 63, and label.len() > 63 of the branch without '/'
NameTooLong(n) ==
    Len(n) > NameMax

KeyTooLong_never(l) ==
    FALSE

\* label.len() > 253
KeyTooLong(l) ==
    Len(l) > KeyMax

\* format!("{label} (...)")
Qualified(l, q) ==
    l \o <<q>>

Unqualified_pattern(l) ==
    l \o <<" (pattern)">>

\* label.to_string()
Unqualified(l) ==
    l

SlashChecks_lastWins(l, p, n) ==
    IF KeyTooLong(l) THEN Some(Qualified(l, " (key too long)"))
    ELSE IF NameTooLong(n) THEN Some(Qualified(l, " (name too long)"))
    ELSE IF PrefixTooLong(p) THEN Some(Qualified(l, " (prefix too long)"))
    ELSE None

\* lines 51-59: the first failing check returns
SlashChecks(l, p, n) ==
    IF PrefixTooLong(p) THEN Some(Qualified(l, " (prefix too long)"))
    ELSE IF NameTooLong(n) THEN Some(Qualified(l, " (name too long)"))
    ELSE IF KeyTooLong(l) THEN Some(Qualified(l, " (key too long)"))
    ELSE None

\* lines 60-62
NoSlashChecks(l) ==
    IF NameTooLong(l) THEN Some(Qualified(l, " (name too long)"))
    ELSE None

\* lines 63-66
PatternCheck(l) ==
    IF ~IsMatch(l) THEN Some(Unqualified(l)) ELSE None

(***************************************************************************)
(* The closure of filter_map, lines 36-67, called on one label.            *)
(* panicked: split_at or the slice unwound; prefix, name: the locals of    *)
(* lines 49-50 (None when not bound); ret: the Option<String> returned.    *)
(***************************************************************************)
Closure(l) ==
    LET found == RFind(l)
        parts == SplitAt(l, found.val)
        nm == SkipSlash(parts.val[2])
        early == SlashChecks(l, parts.val[1], nm.val)
    IN  IF found.some
        THEN IF ~parts.some
             THEN [panicked |-> TRUE, prefix |-> None, name |-> None, ret |-> None]
             ELSE IF ~nm.some
             THEN [panicked |-> TRUE, prefix |-> Some(parts.val[1]), name |-> None,
                   ret |-> None]
             ELSE [panicked |-> FALSE, prefix |-> Some(parts.val[1]), name |-> nm,
                   ret |-> IF early.some THEN early ELSE PatternCheck(l)]
        ELSE [panicked |-> FALSE, prefix |-> None, name |-> None,
              ret |-> IF NoSlashChecks(l).some THEN NoSlashChecks(l)
                      ELSE PatternCheck(l)]

Collect_firstOnly(v, r) ==
    IF r.some /\ v = <<>> THEN Append(v, r.val) ELSE v

\* filter_map(..).collect(): a Some is pushed, a None is dropped
Collect(v, r) ==
    IF r.some THEN Append(v, r.val) ELSE v

\* invalid_label.join(", ")
RECURSIVE Join(_)
Join(v) ==
    IF v = <<>> THEN <<>>
    ELSE IF Len(v) = 1 THEN v[1]
    ELSE v[1] \o <<", ">> \o Join(Tail(v))

\* format!("Invalid annotation names: {}", ..), lines 71-74
Message(v) ==
    <<"Invalid annotation names: ">> \o Join(v)

BaseValidateOk_any(values) ==
    TRUE

\* self.0.validate(), lines 27-28: "this will fail if the annotations key
\* list is empty"
BaseValidateOk(values) ==
    values # {}

\* the Err of self.0.validate(), propagated by `?` (its text is the base
\* crate's)
BaseError ==
    <<"BaseSettings::validate error">>

(***************************************************************************)
(* The inputs: the sets of keys validate is called on.                     *)
(***************************************************************************)
\* the keys of tests::test_validation, lines 89-111
TestKeys ==
    {<<"m", "y", "-", "l", "a", "b", "e", "l">>,
     <<"m", "y", ".", "l", "a", "b", "e", "l">>,
     <<"m", "y", "_", "l", "a", "b", "e", "l">>,
     <<"e", "x", "a", "m", "p", "l", "e", ".", "c", "o", "m", "/", "m", "y", "-", "l", "a", "b", "e", "l">>,
     <<"f", "o", "o", ".", "b", "a", "r", ".", "b", "a", "z", "/", "q", "u", "x">>,
     <<"a", "/", "b">>,
     <<"a", "b", "c", "1", "2", "3">>,
     <<"a", "b", "c", ".", "d", "e", "f", "-", "g", "h", "i", "_", "j", "k", "l">>,
     <<>>,
     <<"/", "m", "y", "-", "l", "a", "b", "e", "l">>,
     <<"e", "x", "a", "m", "p", "l", "e", ".", "c", "o", "m", "/">>,
     <<"-", "m", "y", "-", "l", "a", "b", "e", "l">>,
     <<"e", "x", "a", "m", "p", "l", "e", ".", "c", "o", "m", "/", "-", "m", "y", "-", "l", "a", "b", "e", "l">>,
     <<"e", "x", "a", "m", "p", "l", "e", ".", "c", "o", "m", "/", "m", "y", "-", "l", "a", "b", "e", "l", "-">>,
     <<"e", "x", "a", "m", "p", "l", "e", ".", "c", "o", "m", "/", "m", "y", " ", "l", "a", "b", "e", "l">>,
     <<"e", "x", "a", "m", "p", "l", "e", ".", "c", "o", "m", "/", "m", "y", "@", "l", "a", "b", "e", "l">>,
     <<"E", "x", "a", "m", "p", "l", "e", ".", "c", "o", "m", "/", "m", "y", "-", "l", "a", "b", "e", "l">>,
     <<"e", "x", "a", "m", "p", "l", "e", ".", ".", "c", "o", "m", "/", "m", "y", "-", "l", "a", "b", "e", "l">>,
     Repeat("a", 243) \o <<"/", "b">>,
     Repeat("a", 243) \o <<".", "c", "o", "m", "/", "a", "b", "c">>,
     <<"a">> \o Repeat("b", 63),
     Repeat("a", 254) \o <<".", "c", "o", "m", "/", "a", "b", "c">>}

\* the characters of the exhaustively enumerated short keys: one of each
\* class of the pattern, '/', and a two-byte character
ShortChars ==
    {"a", "A", "0", "-", "_", ".", "/", "U+00E9"}

ShortKeys ==
    {Utf8(cs) : cs \in UNION {[1..n -> ShortChars] : n \in 0..MaxLen}}

Near(limit) ==
    (limit - Margin)..(limit + Margin)

\* keys of valid characters with lengths around the limits of lines 51-60
LongKeys ==
    LET prefixLens == {1} \cup Near(PrefixMax) \cup Near(KeyMax - NameMax - 1)
        nameLens == (1..Margin) \cup Near(NameMax)
    IN  {Repeat("b", n) : n \in nameLens}
        \cup {Repeat("a", p) \o <<"/">> \o Repeat("b", n) :
                 p \in prefixLens, n \in nameLens}

\* the keys that sets of several keys are made of
PoolKeys ==
    {<<"a", "/", "b">>,
     <<"m", "y", "-", "l", "a", "b", "e", "l">>,
     <<>>,
     <<"f", "o", "o", "@", "b", "a", "r">>,
     <<"a", "/", "b", "/", "c">>,
     <<"a">> \o Repeat("b", 63)}

Inputs ==
    {{k} : k \in TestKeys \cup ShortKeys \cup LongKeys \cup PoolKeys}
    \cup {S \in SUBSET PoolKeys : Cardinality(S) <= MaxKeys}

(***************************************************************************)
(* The state machine: one call of Settings::validate.                      *)
(***************************************************************************)
Init ==
    /\ labels \in Inputs
    /\ pc = "validate"
    /\ todo = {}
    /\ label = None
    /\ prefix = None
    /\ name = None
    /\ entry = None
    /\ invalid_label = <<>>
    /\ result = Running

\* lines 26-30: the base settings' validation, its error propagated by `?`
Validate ==
    /\ pc = "validate"
    /\ IF BaseValidateOk(labels)
       THEN /\ pc' = "iter"
            /\ todo' = labels
            /\ result' = result
       ELSE /\ pc' = "done"
            /\ todo' = todo
            /\ result' = Err(BaseError)
    /\ UNCHANGED <<labels, label, prefix, name, entry, invalid_label>>

\* lines 34-68, one step of the iterator: the HashSet yields any label not
\* yielded yet, the closure runs on it, collect keeps a Some
FilterMap ==
    /\ pc = "iter"
    /\ \E l \in todo :
          LET c == Closure(l)
          IN  /\ todo' = todo \ {l}
              /\ label' = Some(l)
              /\ prefix' = c.prefix
              /\ name' = c.name
              /\ entry' = c.ret
              /\ IF c.panicked
                 THEN /\ pc' = "done"
                      /\ result' = Panic
                      /\ invalid_label' = invalid_label
                 ELSE /\ pc' = pc
                      /\ result' = result
                      /\ invalid_label' = Collect(invalid_label, c.ret)
    /\ UNCHANGED labels

\* lines 70-76, once the iterator is exhausted
Return ==
    /\ pc = "iter"
    /\ todo = {}
    /\ pc' = "done"
    /\ result' = IF invalid_label # <<>> THEN Err(Message(invalid_label)) ELSE Ok
    /\ UNCHANGED <<labels, todo, label, prefix, name, entry, invalid_label>>

Next ==
    \/ Validate
    \/ FilterMap
    \/ Return

Spec ==
    Init /\ [][Next]_vars

(***************************************************************************)
(* The commented-out check of lines 37-46, as a closure of its own.        *)
(***************************************************************************)
OldClosure(l) ==
    IF Len(l) > KeyMax THEN Some(Qualified(l, " (key too long)"))
    ELSE IF IsMatch(l) THEN None
    ELSE Some(Unqualified(l))

(***************************************************************************)
(* Vocabulary of the properties.  A label key is described here the way    *)
(* Kubernetes documents it, character by character, not by the pattern.    *)
(***************************************************************************)
Done ==
    pc = "done"

Slashes(s) ==
    {i \in 1..Len(s) : s[i] = "/"}

LastSlash(s) ==
    CHOOSE i \in Slashes(s) : \A j \in Slashes(s) : j <= i

\* the part before the last '/'
PrefixPart(s) ==
    SubSeq(s, 1, LastSlash(s) - 1)

\* the part after the last '/', the whole key when there is none
NamePart(s) ==
    IF Slashes(s) = {} THEN s ELSE SubSeq(s, LastSlash(s) + 1, Len(s))

LowerAlnumChars ==
    Lower \cup Digit

AlnumChars ==
    Lower \cup Upper \cup Digit

\* one or more dot-separated lowercase DNS labels
ValidPrefix(p) ==
    /\ Len(p) >= 1
    /\ \A i \in 1..Len(p) :
          /\ p[i] \in LowerAlnumChars \cup {"-", "."}
          /\ (i = 1 \/ p[i - 1] = ".") => p[i] \in LowerAlnumChars
          /\ (i = Len(p) \/ p[i + 1] = ".") => p[i] \in LowerAlnumChars

\* the characters of a name, whatever its length
ValidNameChars(n) ==
    /\ Len(n) >= 1
    /\ n[1] \in AlnumChars
    /\ n[Len(n)] \in AlnumChars
    /\ \A i \in 1..Len(n) : n[i] \in AlnumChars \cup {"-", "_", "."}

ValidName(n) ==
    ValidNameChars(n) /\ Len(n) <= 63

\* the grammar of a key, whatever the length of the key
ValidGrammar(k) ==
    /\ Cardinality(Slashes(k)) <= 1
    /\ Slashes(k) # {} => ValidPrefix(PrefixPart(k))
    /\ ValidName(NamePart(k))

ValidKey(k) ==
    ValidGrammar(k) /\ Len(k) <= 253

TheKey ==
    CHOOSE k \in labels : TRUE

SingleKey ==
    Cardinality(labels) = 1

Header ==
    "Invalid annotation names: "

Qualifiers ==
    {" (prefix too long)", " (name too long)", " (key too long)"}

\* the n-th smallest element of a set of numbers
Nth(S, n) ==
    CHOOSE x \in S : Cardinality({y \in S : y < x}) = n - 1

\* the pieces of s between the separator tokens
SplitOn(s, sep) ==
    LET cuts == {0, Len(s) + 1} \cup {i \in 1..Len(s) : s[i] = sep}
    IN  [n \in 1..(Cardinality(cuts) - 1) |->
            SubSeq(s, Nth(cuts, n) + 1, Nth(cuts, n + 1) - 1)]

\* the entries of an error message, header removed
Listed(msg) ==
    SplitOn(Tail(msg), ", ")

HasQualifier(e) ==
    e # <<>> /\ e[Len(e)] \in Qualifiers

\* the key an entry names
KeyOf(e) ==
    IF HasQualifier(e) THEN SubSeq(e, 1, Len(e) - 1) ELSE e

\* the message is one this function built (not the base settings' error)
OwnErr ==
    Done /\ result.kind = "Err" /\ result.msg # <<>> /\ result.msg[1] = Header

\* the four checks, as conditions on the key
FailsPrefix(k) ==
    Slashes(k) # {} /\ Len(PrefixPart(k)) > 253

FailsName(k) ==
    Len(NamePart(k)) > 63

FailsKey(k) ==
    Slashes(k) # {} /\ Len(k) > 253

FailsPattern(k) ==
    ~ValidGrammar(k)

FirstFailing(k) ==
    IF FailsPrefix(k) THEN k \o <<" (prefix too long)">>
    ELSE IF FailsName(k) THEN k \o <<" (name too long)">>
    ELSE IF FailsKey(k) THEN k \o <<" (key too long)">>
    ELSE k

LastFailing(k) ==
    IF FailsPattern(k) THEN k
    ELSE IF FailsKey(k) THEN k \o <<" (key too long)">>
    ELSE IF FailsName(k) THEN k \o <<" (name too long)">>
    ELSE k \o <<" (prefix too long)">>

Invalid(k) ==
    FailsPrefix(k) \/ FailsName(k) \/ FailsKey(k) \/ FailsPattern(k)

(***************************************************************************)
(* The claims.                                                             *)
(***************************************************************************)
\* the keys C1 names as rejected: empty, empty prefix, empty name, uppercase
\* in the prefix, consecutive dots in the prefix, leading and trailing '-'
C1_Rejected ==
    {<<>>, <<"/", "a">>, <<"a", "/">>, <<"A", "/", "a">>,
     <<"e", "x", "a", "m", "p", "l", "e", ".", ".", "c", "o", "m", "/",
       "m", "y", "-", "l", "a", "b", "e", "l">>,
     <<"-", "a">>, <<"a", "-">>}

\* C1: called on a single-key set {k}, validate returns Ok exactly when k is a
\* valid label key (optional prefix of dot-separated lowercase DNS labels and
\* one '/', then a name of 1 to 63 characters, alphanumeric at both ends with
\* '-', '_', '.' allowed inside, the key at most 253 long); the keys C1 names
\* are rejected.
C1_SingleKeyOkIffValid ==
    (Done /\ SingleKey) =>
        /\ result.kind \in {"Ok", "Err"}
        /\ result.kind = "Ok" <=> ValidKey(TheKey)
        /\ TheKey \in C1_Rejected => result.kind = "Err"

C1_Witness ==
    /\ Done
    /\ labels = {<<"e", "x", "a", "m", "p", "l", "e", ".", "c", "o", "m", "/",
                   "m", "y", "-", "l", "a", "b", "e", "l">>}
    /\ result = Ok

\* C2: on a non-empty set validate returns Err exactly when some key is
\* invalid, and the message is the header followed by one entry for every
\* invalid key of the set, each once, and none for a valid key, joined by
\* ", ", whatever the other keys and the iteration order.
C2_ErrListsEveryInvalidKeyOnce ==
    (Done /\ labels # {}) =>
        /\ result.kind = "Err" <=> \E k \in labels : ~ValidKey(k)
        /\ result.kind = "Err" =>
              /\ result.msg # <<>>
              /\ result.msg[1] = Header
              /\ LET es == Listed(result.msg)
                 IN  /\ \A i \in DOMAIN es : KeyOf(es[i]) \in labels
                     /\ \A k \in labels :
                           Cardinality({i \in DOMAIN es : KeyOf(es[i]) = k})
                               = IF ValidKey(k) THEN 0 ELSE 1

C2_Witness ==
    /\ Done
    /\ labels = {<<"a", "/", "b">>, <<>>, <<"f", "o", "o", "@", "b", "a", "r">>}
    /\ result = Err(<<Header, "f", "o", "o", "@", "b", "a", "r", ", ">>)

\* C3 as stated: called on an empty set of keys, validate returns Ok.
C3_EmptySetOk ==
    (Done /\ labels = {}) => result = Ok

\* C3, amended: called on an empty set of keys, validate returns the Err of
\* the base settings' validation, before any key is checked; on a non-empty
\* set that validation passes and every key is checked.
C3_EmptySetIsBaseError ==
    /\ (Done /\ labels = {}) =>
          /\ result = Err(BaseError)
          /\ ~label.some
          /\ invalid_label = <<>>
    /\ (Done /\ labels # {}) =>
          /\ result # Err(BaseError)
          /\ label.some

C3_Witness ==
    Done /\ labels = {} /\ result.kind = "Err"

\* a single key with a '/', a well-formed prefix and a well-formed name
C4_Case ==
    /\ Done
    /\ SingleKey
    /\ Slashes(TheKey) # {}
    /\ ValidPrefix(PrefixPart(TheKey))
    /\ ValidName(NamePart(TheKey))

\* C4 as stated: a key whose prefix is exactly 253 valid characters, followed
\* by '/' and a valid name, is accepted; with a prefix of 254 it is rejected.
C4_Prefix253Accepted ==
    C4_Case =>
        /\ Len(PrefixPart(TheKey)) = 253 => result = Ok
        /\ Len(PrefixPart(TheKey)) = 254 => result.kind = "Err"

\* C4, amended: a key whose prefix is exactly 253 valid characters, followed
\* by '/' and a valid name, is rejected as "key too long" (the key is longer
\* than 253); with a prefix of 254 it is rejected as "prefix too long"; such a
\* key is accepted exactly when the whole key is at most 253 long, so the
\* longest accepted prefix has 251 characters.
C4_Prefix253KeyTooLong ==
    C4_Case =>
        /\ Len(PrefixPart(TheKey)) = 253 =>
              result = Err(<<Header>> \o TheKey \o <<" (key too long)">>)
        /\ Len(PrefixPart(TheKey)) = 254 =>
              result = Err(<<Header>> \o TheKey \o <<" (prefix too long)">>)
        /\ result = Ok <=> Len(TheKey) <= 253
        /\ result = Ok => Len(PrefixPart(TheKey)) <= 251

C4_Witness ==
    /\ C4_Case
    /\ Len(PrefixPart(TheKey)) = 253
    /\ result.kind = "Err"

\* C5: a key whose name is exactly 63 valid characters, without prefix or with
\* a valid prefix that keeps the key within 253, is accepted; a key without
\* '/' of 64 valid characters is rejected and its entry in the message is the
\* key followed by " (name too long)".
C5_Name63Accepted64TooLong ==
    (Done /\ SingleKey) =>
        /\ ( /\ Len(NamePart(TheKey)) = 63
             /\ ValidNameChars(NamePart(TheKey))
             /\ Slashes(TheKey) # {} =>
                   /\ Cardinality(Slashes(TheKey)) = 1
                   /\ ValidPrefix(PrefixPart(TheKey))
                   /\ Len(TheKey) <= 253 )
           => result = Ok
        /\ ( /\ Slashes(TheKey) = {}
             /\ Len(TheKey) = 64
             /\ ValidNameChars(TheKey) )
           => result = Err(<<Header>> \o TheKey \o <<" (name too long)">>)

C5_Witness ==
    /\ Done
    /\ labels = {<<"a">> \o Repeat("b", 63)}
    /\ result.kind = "Err"
    /\ result.msg[Len(result.msg)] = " (name too long)"

\* C6 as stated: in the error message every invalid key is followed by its
\* defect in parentheses, a key whose only defect is a pattern mismatch too.
C6_EveryEntryAnnotated ==
    OwnErr => \A i \in DOMAIN Listed(result.msg) : HasQualifier(Listed(result.msg)[i])

\* C6, amended: in the error message a key is followed by its defect in
\* parentheses exactly when it fails a length check; a key whose only defect
\* is a pattern mismatch is listed bare, with nothing after it.  Every entry
\* names a key of the set.
C6_OnlyLengthDefectsAnnotated ==
    OwnErr =>
        \A i \in DOMAIN Listed(result.msg) :
            LET e == Listed(result.msg)[i]
                k == KeyOf(e)
            IN  /\ k \in labels
                /\ HasQualifier(e) <=> (FailsPrefix(k) \/ FailsName(k) \/ FailsKey(k))
                /\ ~HasQualifier(e) => (e = k /\ FailsPattern(k))

C6_Witness ==
    /\ Done
    /\ labels = {<<"f", "o", "o", "@", "b", "a", "r">>}
    /\ result = Err(<<Header, "f", "o", "o", "@", "b", "a", "r">>)

\* C7: validate never panics: for every key the split at the last '/' and the
\* slice that skips it stay within the string, on char boundaries, and the
\* call returns Ok or Err.
C7_NeverPanics ==
    /\ result.kind # "Panic"
    /\ Done => result.kind \in {"Ok", "Err"}
    /\ ~Done => ENABLED Next
    /\ (label.some /\ Slashes(label.val) # {}) => (prefix.some /\ name.some)

\* a key of a two-byte character and a final '/'
C7_Witness ==
    /\ Done
    /\ labels = {<<"0xC3", "0xA9", "/">>}
    /\ name = Some(<<>>)
    /\ result.kind = "Err"

\* the closure has run on a key
Checked ==
    pc # "validate" /\ label.some

\* more than one of the four checks fails for the key
SeveralFail(k) ==
    Cardinality({c \in {"prefix", "name", "key", "pattern"} :
                    \/ c = "prefix" /\ FailsPrefix(k)
                    \/ c = "name" /\ FailsName(k)
                    \/ c = "key" /\ FailsKey(k)
                    \/ c = "pattern" /\ FailsPattern(k)}) > 1

EntriesOf(k) ==
    {i \in DOMAIN invalid_label : KeyOf(invalid_label[i]) = k}

\* C8 as stated: an invalid key contributes exactly one reason, and when
\* several checks fail it is that of the last failing check in the order
\* prefix too long, name too long, key too long, pattern mismatch.
C8_LastFailingCheckReported ==
    (Checked /\ Invalid(label.val)) =>
        /\ Cardinality(EntriesOf(label.val)) = 1
        /\ SeveralFail(label.val) => entry = Some(LastFailing(label.val))

\* C8, amended: an invalid key contributes exactly one entry, and when
\* several checks fail it is that of the first failing check in the order
\* prefix too long, name too long, key too long, pattern mismatch (the first
\* failing check returns); a valid key contributes none.
C8_FirstFailingCheckReported ==
    Checked =>
        /\ Invalid(label.val) =>
              /\ Cardinality(EntriesOf(label.val)) = 1
              /\ entry = Some(FirstFailing(label.val))
        /\ ~Invalid(label.val) =>
              /\ EntriesOf(label.val) = {}
              /\ entry = None

\* prefix, name, key and pattern all fail; "prefix too long" is reported
C8_Witness ==
    /\ Checked
    /\ label = Some(Repeat("a", 254) \o <<"/">> \o Repeat("b", 64))
    /\ entry = Some(label.val \o <<" (prefix too long)">>)
    /\ invalid_label = <<entry.val>>

\* C9: for a key with a '/', the checks take as prefix what is before the last
\* '/' and as name what is after it: prefix + "/" + name is the key and the
\* name holds no '/'; for "a/b/c" the prefix is "a/b" and the name is "c".  A
\* key without '/' is not split.
C9_SplitAtLastSlash ==
    Checked =>
        /\ Slashes(label.val) # {} =>
              /\ prefix.some
              /\ name.some
              /\ prefix.val \o <<"/">> \o name.val = label.val
              /\ Slashes(name.val) = {}
        /\ Slashes(label.val) = {} => (~prefix.some /\ ~name.some)
        /\ label.val = <<"a", "/", "b", "/", "c">> =>
              (prefix.val = <<"a", "/", "b">> /\ name.val = <<"c">>)

C9_Witness ==
    /\ Checked
    /\ label = Some(<<"a", "/", "b", "/", "c">>)
    /\ prefix = Some(<<"a", "/", "b">>)
    /\ name = Some(<<"c">>)

\* C10: the closure rejects a key exactly when the commented-out check of
\* lines 37-46 does (key longer than 253, or no match of the pattern): the
\* prefix and name length checks change the reported reason only.
C10_SameDecisionAsOldCheck ==
    Checked => (entry.some <=> OldClosure(label.val).some)

\* same decision, different entry: "(name too long)" against the bare key
C10_Witness ==
    /\ Checked
    /\ label = Some(<<"a">> \o Repeat("b", 63))
    /\ entry = Some(label.val \o <<" (name too long)">>)
    /\ OldClosure(label.val) = Some(label.val)

====
